---------------------------- MODULE Spec2Model ----------------------------
(***************************************************************************)
(* Section-line engine of OWIxsec: the adjacent-swap path smoother         *)
(* (fence_line.fenceline_smooth), the user-guideline mapper                *)
(* (fence_line.find_fenceline_with_userline), the best-fit line solver     *)
(* (projected_line.find_best_projected_ordering), the point projection    *)
(* (projected_line.projected_section_line_given) and the two entry points  *)
(* fence_line.fenceline and projected_line.projected_section_line.         *)
(*                                                                         *)
(* Numbers.  Coordinates are integers.  Point sets that reach the smoother *)
(* are drawn so that every pairwise distance is an integer, which makes    *)
(* np.sqrt exact.  Angles are integers in microradians, with pi taken as   *)
(* 3.1416; np.arctan2 is tabulated for the directions of the coordinate    *)
(* grid, and np.cos and np.sin of a segment's angle are the exact ratios   *)
(* of its sides.  Projected positions are exact fractions <<x, y, den>>    *)
(* for lines along grid directions; for any other angle np.cos and np.sin  *)
(* are taken to two decimals.  A python None is the empty tuple, a present *)
(* value v is <<v>>.                                                       *)
(*                                                                         *)
(* Around the engine: the angle normaliser geometry_base.principle_rad_    *)
(* angle, the command line (xsec_cl.xsec_parse_args and process_cmds), the *)
(* data preparation of xsec_data_abc (ensure_points_have_spread and        *)
(* remove_wid_if_missing_required_components) and the horizontal layout    *)
(* of the drawing (Xsec_main.adjust_Uscaling), the last in exact rationals *)
(* <<n, d>>.  Each is called on its own, under a specification of its own. *)
(***************************************************************************)
EXTENDS Integers, Sequences, FiniteSets, TLC

VARIABLES
    d_xy,          \* the point set: d_xy[k] = <<x, y>>, keys 1..Len(d_xy) in insertion order
    cmds,          \* the hints bundle: userline, userangle, userangle_constraint
    entry,         \* the function the caller invoked
    pc,            \* position of the call
    wids_in,       \* fenceline_smooth: the ordering it was given
    K,             \* fenceline_smooth: working list of keys
    P,             \* fenceline_smooth: working list of points, kept in step with K
    Q,             \* fenceline_smooth: the tuple of points the scores are taken from
    bestdL,        \* fenceline_smooth: acceptance threshold / best score so far
    icount,        \* fenceline_smooth: sweeps made
    nswaps,        \* fenceline_smooth: swaps applied (observer, not in the source)
    calls,         \* how many times the caller has invoked fenceline_smooth
    angle0,        \* find_best_projected_ordering: the hint angle, or 0
    angle_constraint, \* find_best_projected_ordering: largest |theta| allowed
    theta,         \* find_best_projected_ordering: accumulated rotation from angle0
    istep,         \* find_best_projected_ordering: round counter
    errcount,      \* find_best_projected_ordering: nudges made after failed regressions
    nudge,         \* find_best_projected_ordering: the next nudge, +0.01 or -0.01 rad
    theta_valid,   \* the rotation after the last regression that succeeded (observer)
    nfitted,       \* regressions that succeeded (observer)
    nfailed,       \* regressions that failed (observer)
    ordered_wids,  \* the ordering in hand / returned
    result,        \* what the call returned: kind, ordering, angle
    wids,          \* xsec_data_abc: self.wids, the identifiers of the wells to draw
    componentdicts, \* xsec_data_abc: for each component dictionary, the identifiers it has data for
    args,          \* the arguments of the call in hand
    components_choices, \* xsec_cl: the module's list of component letters
    parses,        \* xsec_parse_args calls made in this process (observer)
    xsec           \* Xsec_main: the fields adjust_Uscaling reads and writes

-----------------------------------------------------------------------------
(* Bounds of the model *)

\* largest point set handed to fenceline_smooth directly
MaxSmoothN == 6

\* largest point set handed to find_best_projected_ordering, directly or by
\* an entry point
MaxFitN == 3

\* full turns added to the angles handed to principle_rad_angle
MaxTurns == 2

\* most identifiers given on a command line
MaxIds == 3

\* most wells read from the database
MaxWells == 3

\* most wells laid out across the drawing
MaxDrawN == 3

\* most calls of xsec_parse_args in one process
MaxParses == 3

\* largest point set handed to projected_section_line_given
MaxProjN == 3

\* largest point set handed to an entry point together with a guideline
MaxLineN == 6

-----------------------------------------------------------------------------
(* Values *)

None == <<>>
Some(v) == <<v>>
IsNone(o) == o = <<>>
Val(o) == o[1]

Abs(x) == IF x < 0 THEN -x ELSE x

\* integer square root (floor); exact on perfect squares
RECURSIVE IsqrtFrom(_, _)
IsqrtFrom(n, r) == IF (r + 1) * (r + 1) > n THEN r ELSE IsqrtFrom(n, r + 1)

Isqrt(n) == IsqrtFrom(n, 0)

IsSquare(n) == Isqrt(n) * Isqrt(n) = n

Dist2(a, b) == (a[1] - b[1]) * (a[1] - b[1]) + (a[2] - b[2]) * (a[2] - b[2])

\* every pairwise distance of the point sequence is an integer
ExactSet(pts) == \A i, j \in 1..Len(pts) : IsSquare(Dist2(pts[i], pts[j]))

\* python indexing of a sequence of length n by a possibly negative index
PyIdx(i, n) == IF i < 0 THEN n + i + 1 ELSE i + 1

\* a swap written as two assignments in a row: the second reads the new value
SwapSequential(s, a, b) == [s EXCEPT ![a] = s[b]]

\* K[a], K[b] = K[b], K[a]
Swap(s, a, b) == [s EXCEPT ![a] = s[b], ![b] = s[a]]

Identity(n) == [i \in 1..n |-> i]

IsPermOf(s, n) == Len(s) = n /\ \A k \in 1..n : Cardinality({i \in 1..Len(s) : s[i] = k}) = 1

-----------------------------------------------------------------------------
(* Angles: integers in microradians *)

\* np.pi, as 3.1416 rad
PI == 3141600

\* an angle reduced to the half-open half turn (-pi/2, pi/2]
FoldHalfTurn(w) == ((w + PI \div 2 - 1) % PI) - PI \div 2 + 1

\* an angle reduced to the half-open turn (-pi, pi]
FoldTurn(w) == ((w + PI - 1) % (2 * PI)) - PI + 1

RECURSIVE Gcd(_, _)
Gcd(a, b) == IF b = 0 THEN a ELSE Gcd(b, a % b)

\* np.arctan for the slopes p/q of the coordinate grid, 0 <= p <= q
ArctanTable(p, q) ==
    CASE p = 0 -> 0
      [] p = 1 /\ q = 4 -> 244979
      [] p = 1 /\ q = 3 -> 321751
      [] p = 1 /\ q = 2 -> 463649
      [] p = 2 /\ q = 3 -> 588004
      [] p = 3 /\ q = 4 -> 643503
      [] p = 5 /\ q = 12 -> 394792
      [] p = 1 /\ q = 1 -> PI \div 4

\* np.arctan2(dy, dx) of a non-zero grid vector, in (-pi, pi]
Arctan2(dy, dx) ==
    CHOOSE r \in
        {IF dx >= 0 /\ dy >= 0 THEN q1
         ELSE IF dx < 0 /\ dy >= 0 THEN PI - q1
         ELSE IF dx < 0 /\ dy < 0 THEN q1 - PI
         ELSE -q1 :
            q1 \in
                {IF ay <= ax THEN ArctanTable(ay, ax)
                 ELSE PI \div 2 - ArctanTable(ax, ay) :
                    <<ax, ay>> \in
                        {<<Abs(dx) \div g, Abs(dy) \div g>> :
                            g \in {Gcd(Abs(dx), Abs(dy))}}}} : TRUE

-----------------------------------------------------------------------------
(* fence_line.py: scores *)

\* hypot_p(a,b): np.sqrt of the squared distance
hypot_p(a, b) == Isqrt(Dist2(a, b))

\* score_swapE(b,c,d,Q): <<bd - cd, <<b, c>>>> with python indices b, c, d into Q
score_swapE(b, c, d, q) ==
    LET n  == Len(q)
        cd == hypot_p(q[PyIdx(c, n)], q[PyIdx(d, n)])
        bd == hypot_p(q[PyIdx(b, n)], q[PyIdx(d, n)])
    IN  <<bd - cd, <<b, c>>>>

\* total length of the path through the points in the order given
RECURSIVE PathLen(_, _)
PathLen(pts, o) ==
    IF Len(o) < 2 THEN 0
    ELSE hypot_p(pts[o[1]], pts[o[2]]) + PathLen(pts, Tail(o))

-----------------------------------------------------------------------------
(* fence_line.py: fenceline_smooth *)

\* the candidate scored at loop index i of a sweep over n points
SweepCandidate(i, n, q) ==
    IF i = 0 THEN score_swapE(0, 1, 2, q)
    ELSE IF i = n - 4 THEN score_swapE(-1, -2, -3, q)
    ELSE score_swapE(i, i + 1, i + 2, q)

\* for i in range(i, N-3): keep the candidate whose score is below the threshold
RECURSIVE SweepScan(_, _, _, _, _)
SweepScan(i, n, q, bd, bs) ==
    IF i >= n - 3 THEN <<bd, bs>>
    ELSE LET c == SweepCandidate(i, n, q)
         IN  IF c[1] < bd THEN SweepScan(i + 1, n, q, c[1], Some(c[2]))
             ELSE SweepScan(i + 1, n, q, bd, bs)

\* the N == 3 branch taking the first swap whenever it shortens the path
SmoothThreeFirstWins(k, q) ==
    LET dL1 == score_swapE(0, 1, 2, q)[1]
        dL2 == score_swapE(2, 1, 0, q)[1]
    IN  IF dL1 < 0 THEN Swap(k, 1, 2)
        ELSE IF dL2 < 0 THEN Swap(k, 2, 3)
        ELSE k

\* the N == 3 branch: two end swaps are tried
SmoothThree(k, q) ==
    LET dL1 == score_swapE(0, 1, 2, q)[1]
        dL2 == score_swapE(2, 1, 0, q)[1]
    IN  IF dL1 < 0 /\ dL1 < dL2 THEN Swap(k, 1, 2)
        ELSE IF dL2 < 0 THEN Swap(k, 2, 3)
        ELSE k

smoothVars == <<wids_in, K, P, Q, bestdL, icount, nswaps>>

fitVars == <<angle0, angle_constraint, theta, istep, errcount, nudge,
             theta_valid, nfitted, nfailed>>

hostVars == <<wids, componentdicts, args, components_choices, parses, xsec>>

\* the points of an ordering, in order
PointsOf(pts, o) == [i \in 1..Len(o) |-> pts[o[i]]]

\* a point of d_xy as a coordinate pair
XY(p) == <<p[1], p[2], 1>>

\* Plyline(xy, label): the nodes and the label
Plyline(xy, label) == [xy |-> xy, label |-> label]

\* a result without a line
Plain(kind, k, angle) ==
    [kind |-> kind, wids |-> k, angle |-> angle, line |-> None, normals |-> None]

\* the end of fenceline: Plyline(xy, label='fenceline') of the points in
\* order, and no leaders
FenceSection(pts, k) ==
    [kind |-> "section", wids |-> k, angle |-> None,
     line |-> Plyline([i \in 1..Len(k) |-> XY(pts[k[i]])], "fenceline"),
     normals |-> None]

\* fenceline_smooth(d_xy, ordered_wids) as a whole: what it returns.  On four
\* or more points the first sweep sets the threshold that no later sweep
\* gets below, so the swap of the first sweep is the only one.
fenceline_smooth(pts, o) ==
    LET n == Len(pts)
        Swept(q) ==
            CHOOSE r \in
                {IF IsNone(bs) THEN o
                 ELSE Swap(o, PyIdx(Val(bs)[1], Len(o)), PyIdx(Val(bs)[2], Len(o))) :
                    bs \in {SweepScan(0, n, q, -1, None)[2]}} : TRUE
    IN  IF n < 3 THEN o
        ELSE CHOOSE r \in
                {IF n = 3 THEN SmoothThree(o, q) ELSE Swept(q) :
                    q \in {PointsOf(pts, o)}} : TRUE

\* the return of fenceline_smooth: to its caller, or into fenceline, which
\* makes the Plyline of the ordering and returns
SmoothReturn(k) ==
    /\ ordered_wids' = k
    /\ pc' = "done"
    /\ IF entry = "smooth"
       THEN result' = Plain("ordering", k, None)
       ELSE result' = FenceSection(d_xy, k)

\* entry of fenceline_smooth(d_xy, ordered_wids), up to the first sweep
SmoothEnter ==
    /\ pc = "smooth"
    /\ wids_in' = ordered_wids
    /\ icount' = 0
    /\ nswaps' = 0
    /\ UNCHANGED <<d_xy, cmds, entry, calls>>
    /\ UNCHANGED hostVars
    /\ UNCHANGED fitVars
    /\ LET n  == Len(d_xy)
           k0 == ordered_wids
           p0 == [i \in 1..Len(k0) |-> d_xy[k0[i]]]
       IN  IF n < 3
           THEN /\ K' = k0 /\ P' = <<>> /\ Q' = <<>> /\ bestdL' = 0
                /\ SmoothReturn(k0)
           ELSE IF n = 3
           THEN /\ K' = SmoothThree(k0, p0) /\ P' = p0 /\ Q' = p0 /\ bestdL' = 0
                /\ SmoothReturn(SmoothThree(k0, p0))
           ELSE /\ K' = k0 /\ P' = p0 /\ Q' = p0 /\ bestdL' = -1
                /\ pc' = "sweep"
                /\ UNCHANGED <<ordered_wids, result>>

\* the threshold of a sweep set back to 1
ThresholdSetToOne(bd) == 1

\* the threshold a sweep starts from: `best_dL = 1` at the head of the loop
\* names another variable, so bestdL is as the sweep before left it
ThresholdAtSweep(bd) == bd

\* one pass of the while loop: the loop test, the scan, the count, the swap
Sweep ==
    /\ pc = "sweep"
    /\ UNCHANGED <<d_xy, cmds, entry, calls, wids_in, Q>>
    /\ UNCHANGED hostVars
    /\ UNCHANGED fitVars
    /\ IF ~(bestdL < 0)
       THEN /\ UNCHANGED <<K, P, bestdL, icount, nswaps>>
            /\ SmoothReturn(K)
       ELSE LET n  == Len(d_xy)
                sc == SweepScan(0, n, Q, ThresholdAtSweep(bestdL), None)
                bs == sc[2]
            IN  /\ bestdL' = sc[1]
                /\ icount' = icount + 1
                /\ IF icount + 1 > 100
                   THEN /\ UNCHANGED <<K, P, nswaps>>
                        /\ SmoothReturn(K)
                   ELSE IF ~IsNone(bs)
                   THEN LET a == PyIdx(Val(bs)[1], Len(K))
                            b == PyIdx(Val(bs)[2], Len(K))
                        IN  /\ K' = Swap(K, a, b)
                            /\ P' = Swap(P, a, b)
                            /\ nswaps' = nswaps + 1
                            /\ pc' = "sweep"
                            /\ UNCHANGED <<ordered_wids, result>>
                   ELSE /\ UNCHANGED <<K, P, nswaps>>
                        /\ SmoothReturn(K)

-----------------------------------------------------------------------------
(* fence_line.py: find_fenceline_with_userline *)

\* positions along the guideline are kept as integers: 120 times the length,
\* which holds every x/len for len in 1..5 and every average of two of them
PosScale == 120

\* python truth of a float-or-None: None and 0.0 are false
Truthy(o) == ~IsNone(o) /\ Val(o) # 0

\* Lines: the directed segments between successive nodes of userline, each
\* with its length and the cumulative lengths s0, s1 of its two ends
RECURSIVE CumLen(_, _)
CumLen(userline, i) ==
    IF i = 0 THEN 0
    ELSE CumLen(userline, i - 1) + hypot_p(userline[i], userline[i + 1])

Lines(userline) ==
    [i \in 1..(Len(userline) - 1) |->
        [xy0 |-> userline[i], xy1 |-> userline[i + 1],
         length |-> hypot_p(userline[i], userline[i + 1]),
         s0 |-> PosScale * CumLen(userline, i - 1),
         s1 |-> PosScale * CumLen(userline, i)]]

\* Line.XY(a)[0]: the coordinate of a along the segment, from its start;
\* a segment of length 0 has angle arctan2(0, 0) = 0
LineX(L, a) ==
    LET u  == a[1] - L.xy0[1]
        v  == a[2] - L.xy0[2]
        dx == L.xy1[1] - L.xy0[1]
        dy == L.xy1[2] - L.xy0[2]
    IN  IF L.length = 0 THEN PosScale * u
        ELSE (PosScale * (u * dx + v * dy)) \div L.length

\* knearesti[k]: python index of the first node of userline at least distance
NearestNode(userline, a) ==
    CHOOSE i \in 0..(Len(userline) - 1) :
        /\ \A j \in 0..(Len(userline) - 1) :
              Dist2(a, userline[i + 1]) <= Dist2(a, userline[j + 1])
        /\ \A j \in 0..(i - 1) :
              Dist2(a, userline[i + 1]) < Dist2(a, userline[j + 1])

\* the entering segment taken without its end point
MapLeftOpenEnd(lines, i, a) ==
    IF ~(i - 1 >= 0) THEN <<None, None>>
    ELSE LET L  == lines[i]
             Xl == LineX(L, a) + L.s0
         IN  <<Some((L.s0 <= Xl /\ Xl < L.s1) \/ (i = 0 /\ Xl < L.s1)), Some(Xl)>>

\* the try block on the segment entering node i: <<rl, Xl>>
MapLeft(lines, i, a) ==
    IF ~(i - 1 >= 0) THEN <<None, None>>
    ELSE LET L  == lines[i]
             Xl == LineX(L, a) + L.s0
         IN  <<Some((L.s0 <= Xl /\ Xl <= L.s1) \/ (i = 0 /\ Xl < L.s1)), Some(Xl)>>

\* the try block on the segment leaving node i: <<rr, Xr>>
MapRight(lines, i, a) ==
    IF i + 1 > Len(lines) THEN <<None, None>>
    ELSE LET L  == lines[i + 1]
             n  == Len(lines)
             Xr == LineX(L, a) + L.s0
         IN  <<Some((L.s0 <= Xr /\ Xr <= L.s1) \/ (i = n - 1 /\ Xr > L.s0)), Some(Xr)>>

\* python truth of rl / rr: None and False are false
Holds(o) == ~IsNone(o) /\ Val(o)

\* the resolution that shares a position only between two valid segments
ResolveOneWhenNeither(lines, i, a) ==
    LET l  == MapLeft(lines, i, a)
        r  == MapRight(lines, i, a)
        rl == l[1]
        Xl == l[2]
        rr == r[1]
        Xr == r[2]
    IN  IF Holds(rl) /\ ~Holds(rr) THEN Xl
        ELSE IF ~Holds(rl) /\ Holds(rr) THEN Xr
        ELSE IF Holds(rl) /\ Holds(rr) THEN Some((Val(Xl) + Val(Xr)) \div 2)
        ELSE IF Truthy(Xl) THEN Xl
        ELSE IF Truthy(Xr) THEN Xr
        ELSE None

\* kposition[k] for one point, or None where the source raises ValueError
Resolve(lines, i, a) ==
    LET l  == MapLeft(lines, i, a)
        r  == MapRight(lines, i, a)
        rl == l[1]
        Xl == l[2]
        rr == r[1]
        Xr == r[2]
    IN  IF Holds(rl) /\ ~Holds(rr) THEN Xl
        ELSE IF ~Holds(rl) /\ Holds(rr) THEN Xr
        ELSE IF Truthy(Xl) /\ Truthy(Xr) THEN Some((Val(Xl) + Val(Xr)) \div 2)
        ELSE IF Truthy(Xl) THEN Xl
        ELSE IF Truthy(Xr) THEN Xr
        ELSE None

\* kposition as a sequence over the keys
KPosition(pts, userline) ==
    LET lines == Lines(userline)
    IN  [k \in 1..Len(pts) |->
            Resolve(lines, NearestNode(userline, pts[k]), pts[k])]

\* rposition = {v:k for k,v in kposition.items()}: of the keys at one position
\* the last one stays; then the keys that stay, by sorted position
OrderByPosition(kpos) ==
    LET n == Len(kpos)
        InRposition(k) == \A j \in 1..n : kpos[j] = kpos[k] => j <= k
        Rank(k) == 1 + Cardinality({j \in 1..n :
                                      InRposition(j) /\ Val(kpos[j]) < Val(kpos[k])})
    IN  [r \in 1..Cardinality({k \in 1..n : InRposition(k)}) |->
            CHOOSE k \in 1..n : InRposition(k) /\ Rank(k) = r]

\* find_fenceline_with_userline(d_xy, cmds): the ordering, or None when the
\* call raises (a point with no projection, or no node to be nearest to)
find_fenceline_with_userline(pts, userline) ==
    IF Len(userline) = 0 /\ Len(pts) > 0 THEN None
    ELSE CHOOSE o \in {IF \E k \in 1..Len(pts) : IsNone(kpos[k]) THEN None
                       ELSE Some(OrderByPosition(kpos)) :
                       kpos \in {KPosition(pts, userline) \o <<>>}} : TRUE

-----------------------------------------------------------------------------
(* projected_line.py: find_best_projected_ordering *)

\* tol = np.pi/180: abs(theta1) < tol
BelowTol(theta1) == 180 * Abs(theta1) < PI

\* all points at one place (or no point): the regression has nothing to fit
Coincident(pts) == \A i, j \in 1..Len(pts) : pts[i] = pts[j]

Cross(a, b, c) == (b[1] - a[1]) * (c[2] - a[2]) - (b[2] - a[2]) * (c[1] - a[1])

Collinear(pts) == \A i, j, k \in 1..Len(pts) : Cross(pts[i], pts[j], pts[k]) = 0

\* the direction of the line through a collinear point set that is not coincident
LineAngle(pts) ==
    LET j == CHOOSE j \in 1..Len(pts) : pts[j] # pts[1]
    IN  Arctan2(pts[j][2] - pts[1][2], pts[j][1] - pts[1][1])

\* np.polyfit(X, Y, 1) raises: the points, turned by -rot about their centroid,
\* all have the same X (a vertical line, or a single place)
PolyfitFails(pts, rot) ==
    \/ Coincident(pts)
    \/ Collinear(pts) /\ FoldHalfTurn(LineAngle(pts) - rot) = PI \div 2

\* what the least-squares fit of a point set that is not on one line may give
\* for theta1: a step either way, or a step below tol
FitSteps == {-100000, 100000, 10000}

\* the fitted angle with the frame turned the wrong way
FitAnglesTurnedBack(pts, rot) ==
    IF Collinear(pts) THEN {FoldHalfTurn(rot - LineAngle(pts))} ELSE FitSteps

\* theta1 = np.arctan2(f(1), 1) of the fitted line: for points on one line the
\* fit is exact and theta1 is the line's angle in the turned frame
FitAngles(pts, rot) ==
    IF Collinear(pts) THEN {FoldHalfTurn(LineAngle(pts) - rot)} ELSE FitSteps

\* the sign of X[j] - X[i] after rotate(.., -alpha), X = x cos(alpha) + y sin(alpha)
SignAlong(pts, alpha, i, j) ==
    LET dx == pts[j][1] - pts[i][1]
        dy == pts[j][2] - pts[i][2]
    IN  IF dx = 0 /\ dy = 0 THEN 0
        ELSE LET w == Abs(FoldTurn(Arctan2(dy, dx) - alpha))
             IN  IF w < PI \div 2 THEN 1 ELSE IF w = PI \div 2 THEN 0 ELSE -1

\* an ordering that leaves the keys in the order of d_xy
ArgsortSkipped(pts, alpha) == Identity(Len(pts))

\* [wid[i] for i in np.argsort(X)]: equal X keep their order in d_xy
ArgsortAlong(pts, alpha) ==
    LET n == Len(pts)
        Before(j, i) == \/ SignAlong(pts, alpha, j, i) = 1
                        \/ SignAlong(pts, alpha, j, i) = 0 /\ j < i
        Rank(i) == 1 + Cardinality({j \in 1..n : Before(j, i)})
    IN  [r \in 1..n |-> CHOOSE i \in 1..n : Rank(i) = r]

\* a retry cap that lets one more nudge through
RetryCapReachedLate(e) == e > 5

\* if errcount > 4: break
RetryCapReached(e) == e > 4

\* the angle of a Line from xy0 to xy1: np.arctan2(d[1], d[0])
LineAngleOf(xy0, xy1) ==
    IF xy0 = xy1 THEN 0 ELSE Arctan2(xy1[2] - xy0[2], xy1[1] - xy0[1])

-----------------------------------------------------------------------------
(* geometry_base.py, projected_line.py: coordinates, lines, projection *)

\* a coordinate pair of floats: <<x, y, den>> is (x/den, y/den), in lowest
\* terms so that equal pairs are equal tuples
Coord(x, y, den) ==
    LET g == Gcd(Gcd(Abs(x), Abs(y)), den)
    IN  <<x \div g, y \div g, den \div g>>

\* Plyline.segmentlength: np.sqrt(np.sum(diffs**2, 1)), in 1/PosScale
SegmentLength(a, b) ==
    LET dx == b[1] * a[3] - a[1] * b[3]
        dy == b[2] * a[3] - a[2] * b[3]
    IN  Isqrt((dx * dx + dy * dy) * PosScale * PosScale) \div (a[3] * b[3])

\* Plyline.length: np.sum(self.segmentlength), in 1/PosScale
RECURSIVE SumSegments(_, _)
SumSegments(xy, i) ==
    IF i >= Len(xy) THEN 0
    ELSE SegmentLength(xy[i], xy[i + 1]) + SumSegments(xy, i + 1)

PlylineLength(line) == SumSegments(line.xy, 1)

\* the grid directions: the vectors in lowest terms whose slope ArctanTable has
Tabulated(p, q) ==
    <<p, q>> \in {<<0, 1>>, <<1, 4>>, <<1, 3>>, <<1, 2>>, <<2, 3>>, <<3, 4>>,
                  <<5, 12>>, <<1, 1>>}

GridVectors ==
    {v \in (-12..12) \X (-12..12) :
        /\ v # <<0, 0>>
        /\ Gcd(Abs(v[1]), Abs(v[2])) = 1
        /\ IF Abs(v[2]) <= Abs(v[1]) THEN Tabulated(Abs(v[2]), Abs(v[1]))
           ELSE Tabulated(Abs(v[1]), Abs(v[2]))}

\* np.sin of an angle off the grid directions, in thousandths, to two
\* decimals: 16x(pi-x) / (5pi^2 - 4x(pi-x)) for x in [0, pi], x in 1/100 rad
SinOffGrid(w) ==
    LET x == Abs(w) \div 10000
        h == PI \div 10000
        t == x * (h - x)
        v == (16000 * t) \div (5 * h * h - 4 * t)
    IN  IF w >= 0 THEN v ELSE -v

\* every grid direction with its np.arctan2
GridAngles == {<<Arctan2(v[2], v[1]), v>> : v \in GridVectors}

\* np.cos(angle), np.sin(angle) as c/sqrt(n), s/sqrt(n): exact for the angle
\* of a grid direction, where c*c + s*s = n
CosSin(angle) ==
    CHOOSE r \in
        {IF exact # {}
         THEN CHOOSE f \in {[c |-> e[2][1], s |-> e[2][2],
                             n |-> e[2][1] * e[2][1] + e[2][2] * e[2][2]] :
                                e \in exact} : TRUE
         ELSE [c |-> SinOffGrid(FoldTurn(w + PI \div 2)), s |-> SinOffGrid(w),
               n |-> 1000000] :
            <<w, exact>> \in
                {<<u, {e \in GridAngles : e[1] = u}>> : u \in {FoldTurn(angle)}}} : TRUE

\* rotate(x, y, angle), with cs the cosine and sine of the angle; the result
\* is in units of 1/sqrt(cs.n)
rotate(x, y, cs) == <<x * cs.c - y * cs.s, y * cs.c + x * cs.s>>

\* translate(x, y, dx, dy)
translate(x, y, dx, dy) == <<x + dx, y + dy>>

\* Line.center(): (xy0 + xy1)/2
LineCenter(xy0, xy1) == <<xy0[1] + xy1[1], xy0[2] + xy1[2], 2>>

\* np.mean(xy, 0)
RECURSIVE SumXY(_, _)
SumXY(pts, i) ==
    IF i = 0 THEN <<0, 0>>
    ELSE LET r == SumXY(pts, i - 1)
         IN  <<r[1] + pts[i][1], r[2] + pts[i][2]>>

MeanXY(pts) == <<SumXY(pts, Len(pts))[1], SumXY(pts, Len(pts))[2], Len(pts)>>

\* a projection that rotates by -alpha a second time where it should rotate
\* back by alpha
ProjectTurnedTwice(p, xyc, fwd, back) ==
    LET XYt  == translate(p[1] * xyc[3], p[2] * xyc[3],
                          -xyc[1] * p[3], -xyc[2] * p[3])
        UV   == rotate(XYt[1], XYt[2], back)
        XpYp == rotate(UV[1], 0, back)
        xyp  == translate(XpYp[1], XpYp[2],
                          xyc[1] * p[3] * fwd.n, xyc[2] * p[3] * fwd.n)
    IN  [U |-> UV[1], xyp |-> Coord(xyp[1], xyp[2], xyc[3] * p[3] * fwd.n)]

\* one point through translate, rotate by -alpha, V*0, rotate by alpha,
\* translate back: U in units of 1/(xyc[3] * p[3] * sqrt(n)), and the
\* projected pair (xp, yp).  fwd is CosSin(alpha), back is CosSin(-alpha).
Project(p, xyc, fwd, back) ==
    LET Unrotated(Up, Vp) ==
            CHOOSE r \in
                {[U   |-> Up,
                  xyp |-> Coord(xyp[1], xyp[2], xyc[3] * p[3] * fwd.n)] :
                    xyp \in
                        {translate(XpYp[1], XpYp[2],
                                   xyc[1] * p[3] * fwd.n, xyc[2] * p[3] * fwd.n) :
                            XpYp \in {rotate(Up, Vp, fwd)}}} : TRUE
    IN  CHOOSE r \in
            {Unrotated(UV[1], UV[2] * 0) :
                UV \in
                    {rotate(XYt[1], XYt[2], back) :
                        XYt \in {translate(p[1] * xyc[3], p[2] * xyc[3],
                                           -xyc[1] * p[3], -xyc[2] * p[3])}}} : TRUE

\* leaders that start at the points in the order of d_xy, not of the ordering
NormalsInKeyOrder(pts, ordered, xyp) ==
    [i \in 1..Len(ordered) |-> <<XY(pts[i]), xyp[i]>>]

\* the leaders: Line((d_xy[wid], xyp[i,:])) for i, wid in
\* enumerate(ordered_wids), xyp being in the order of psort by then
Normals(pts, ordered, xyp) ==
    [i \in 1..Len(ordered) |-> <<XY(pts[ordered[i]]), xyp[i]>>]

\* what a call that raises leaves with its caller
Raised == Plain("error", <<>>, None)

\* python truth of cmds.userline: None and the empty list are false
HasLine(c) == ~IsNone(c.userline) /\ Len(Val(c.userline)) > 0

\* xyp of projected_section_line_given: the projected pair of every point,
\* in the order of d_xy
Projected(pts, alpha, xyc) ==
    CHOOSE r \in
        {[k \in 1..Len(pts) |-> Project(XY(pts[k]), xyc, fwd, back).xyp] :
            <<fwd, back>> \in {<<CosSin(alpha), CosSin(-alpha)>>}} : TRUE

\* the part of projected_section_line_given after alpha and xyc: psort, the
\* keys and xyp in that order, the section line and the leaders
SectionAlong(pts, alpha, xyc) ==
    CHOOSE r \in
        {[kind    |-> "section",
          wids    |-> psort,
          angle   |-> Some(alpha),
          line    |-> Plyline(xyp, "sectionline"),
          normals |-> Some(Normals(pts, psort, xyp))] :
            <<psort, xyp>> \in
                {<<o, [i \in 1..Len(o) |-> unsorted[o[i]]]>> :
                    <<o, unsorted>> \in
                        {<<ArgsortAlong(pts, alpha), Projected(pts, alpha, xyc)>>}}} : TRUE

\* projected_section_line_given(d_xy, cmds): the ordering along the line, the
\* angle alpha of the line, the section line and the leaders
projected_section_line_given(pts, c) ==
    IF HasLine(c)
    THEN LET ul == Val(c.userline)
         IN  IF Len(ul) < 2 THEN Raised
             ELSE SectionAlong(pts, LineAngleOf(ul[1], ul[2]),
                               LineCenter(ul[1], ul[2]))
    ELSE IF ~IsNone(c.userangle)
    THEN SectionAlong(pts, Val(c.userangle), MeanXY(pts))
    ELSE Raised

\* a singleton section that returns an empty list of leaders
SingletonWithEmptyLeaders(pts) ==
    [kind |-> "section", wids |-> Identity(Len(pts)), angle |-> None,
     line |-> Plyline([i \in 1..Len(pts) |-> XY(pts[i])], "singleton"),
     normals |-> Some(<<>>)]

\* singleton_section_line(d_xy, cmds)
singleton_section_line(pts) ==
    [kind |-> "section", wids |-> Identity(Len(pts)), angle |-> None,
     line |-> Plyline([i \in 1..Len(pts) |-> XY(pts[i])], "singleton"),
     normals |-> None]

\* entry of find_best_projected_ordering(d_xy, cmds), up to the loop
FitEnter ==
    /\ pc = "fit"
    /\ angle0' = IF IsNone(cmds.userangle) THEN 0 ELSE Val(cmds.userangle)
    /\ angle_constraint' =
           IF IsNone(cmds.userangle) THEN (99 * PI) \div 200
           ELSE IF IsNone(cmds.userangle_constraint) THEN PI \div 2
           ELSE Val(cmds.userangle_constraint)
    /\ theta' = 0
    /\ istep' = 1
    /\ errcount' = 0
    /\ nudge' = 10000
    /\ theta_valid' = 0
    /\ nfitted' = 0
    /\ nfailed' = 0
    /\ pc' = "fitloop"
    /\ UNCHANGED <<d_xy, cmds, entry, calls, ordered_wids, result>>
    /\ UNCHANGED hostVars
    /\ UNCHANGED smoothVars

\* one pass of the while loop: the loop test, the regression, the nudge or
\* the accumulation with its clamps
FitRound ==
    /\ pc = "fitloop"
    /\ UNCHANGED <<d_xy, cmds, entry, calls, ordered_wids, result, angle0, angle_constraint>>
    /\ UNCHANGED hostVars
    /\ UNCHANGED smoothVars
    /\ IF ~(istep < 20)
       THEN /\ pc' = "fitend"
            /\ UNCHANGED <<theta, istep, errcount, nudge, theta_valid, nfitted, nfailed>>
       ELSE IF PolyfitFails(d_xy, angle0 + theta)
       THEN /\ nfailed' = nfailed + 1
            /\ UNCHANGED <<istep, theta_valid, nfitted>>
            /\ IF RetryCapReached(errcount)
               THEN /\ pc' = "fitend"
                    /\ UNCHANGED <<theta, errcount, nudge>>
               ELSE /\ theta' = theta + nudge
                    /\ nudge' = -nudge
                    /\ errcount' = errcount + 1
                    /\ pc' = "fitloop"
       ELSE \E theta1 \in FitAngles(d_xy, angle0 + theta) :
            LET t == theta + theta1
            IN  /\ nfitted' = nfitted + 1
                /\ UNCHANGED <<errcount, nudge, nfailed>>
                /\ IF t <= -angle_constraint
                   THEN /\ theta' = -angle_constraint
                        /\ istep' = istep
                        /\ pc' = "fitend"
                   ELSE IF t >= angle_constraint
                   THEN /\ theta' = angle_constraint
                        /\ istep' = istep
                        /\ pc' = "fitend"
                   ELSE IF BelowTol(theta1)
                   THEN /\ theta' = t
                        /\ istep' = istep
                        /\ pc' = "fitend"
                   ELSE /\ theta' = t
                        /\ istep' = istep + 1
                        /\ pc' = "fitloop"
                /\ theta_valid' = theta'

\* after the loop: the ordering at the final angle, and the return: to the
\* caller, into fenceline, which hands the ordering to fenceline_smooth, or
\* into projected_section_line, which stores the angle in cmds and returns
\* what projected_section_line_given makes of it
FitFinish ==
    /\ pc = "fitend"
    /\ LET ordered_wid == ArgsortAlong(d_xy, angle0 + theta)
           finaltheta  == theta + angle0
       IN  IF entry = "fit"
           THEN /\ ordered_wids' = ordered_wid
                /\ result' = Plain("fit", ordered_wid, Some(finaltheta))
                /\ pc' = "done"
                /\ UNCHANGED cmds
           ELSE IF entry = "fenceline"
           THEN /\ ordered_wids' = ordered_wid
                /\ pc' = "smooth"
                /\ UNCHANGED <<cmds, result>>
           ELSE /\ cmds' = [cmds EXCEPT !.userangle = Some(finaltheta)]
                /\ result' = projected_section_line_given(d_xy, cmds')
                /\ pc' = "done"
                /\ UNCHANGED ordered_wids
    /\ UNCHANGED <<d_xy, entry, calls>>
    /\ UNCHANGED hostVars
    /\ UNCHANGED smoothVars
    /\ UNCHANGED <<angle0, angle_constraint, theta, istep, errcount, nudge,
                   theta_valid, nfitted, nfailed>>

-----------------------------------------------------------------------------
(* the entry points *)

\* a mapped ordering that is smoothed from 5 keys on
SmoothAfterMappingFromFive(o, ul) == Len(o) > 4 /\ Len(o) > 2 * Len(ul)

\* if len(ordered_wids)>5 and len(ordered_wids)/len(cmds.userline)>2
SmoothAfterMapping(o, ul) == Len(o) > 5 /\ Len(o) > 2 * Len(ul)

\* fenceline(d_xy, cmds), up to its first call that takes steps
fenceline ==
    /\ pc = "fenceline"
    /\ UNCHANGED <<d_xy, cmds, entry, calls>>
    /\ UNCHANGED hostVars
    /\ UNCHANGED smoothVars
    /\ UNCHANGED fitVars
    /\ IF Len(d_xy) = 1
       THEN /\ result' = singleton_section_line(d_xy)
            /\ pc' = "done"
            /\ UNCHANGED ordered_wids
       ELSE IF HasLine(cmds)
       THEN \E o \in {find_fenceline_with_userline(d_xy, Val(cmds.userline))} :
                IF IsNone(o)
                THEN /\ result' = Raised
                     /\ pc' = "done"
                     /\ UNCHANGED ordered_wids
                ELSE IF SmoothAfterMapping(Val(o), Val(cmds.userline))
                THEN /\ ordered_wids' = Val(o)
                     /\ pc' = "smooth"
                     /\ UNCHANGED result
                ELSE /\ ordered_wids' = Val(o)
                     /\ result' = FenceSection(d_xy, Val(o))
                     /\ pc' = "done"
       ELSE /\ pc' = "fit"
            /\ UNCHANGED <<ordered_wids, result>>

\* projected_section_line(d_xy, cmds), up to its first call that takes steps
projected_section_line ==
    /\ pc = "projected"
    /\ UNCHANGED <<d_xy, cmds, entry, calls, ordered_wids>>
    /\ UNCHANGED hostVars
    /\ UNCHANGED smoothVars
    /\ UNCHANGED fitVars
    /\ IF Len(d_xy) = 1
       THEN /\ result' = singleton_section_line(d_xy)
            /\ pc' = "done"
       ELSE IF IsNone(cmds.userline)
       THEN /\ pc' = "fit"
            /\ UNCHANGED result
       ELSE /\ result' = projected_section_line_given(d_xy, cmds)
            /\ pc' = "done"

-----------------------------------------------------------------------------
\* the caller applies fenceline_smooth to the ordering it has just returned
SmoothAgain ==
    /\ pc = "done"
    /\ entry = "smooth"
    /\ calls = 1
    /\ calls' = 2
    /\ ordered_wids' = result.wids
    /\ pc' = "smooth"
    /\ result' = Plain("none", <<>>, None)
    /\ UNCHANGED <<d_xy, cmds, entry, wids_in, K, P, Q, bestdL, icount, nswaps>>
    /\ UNCHANGED hostVars
    /\ UNCHANGED fitVars

-----------------------------------------------------------------------------
vars == <<d_xy, cmds, entry, pc, wids_in, K, P, Q, bestdL, icount, nswaps, calls,
          angle0, angle_constraint, theta, istep, errcount, nudge,
          theta_valid, nfitted, nfailed, ordered_wids, result,
          wids, componentdicts, args, components_choices, parses, xsec>>

NoCmds == [userline |-> None, userangle |-> None, userangle_constraint |-> None]

NoResult == Plain("none", <<>>, None)

SmoothIdle ==
    /\ wids_in = <<>> /\ K = <<>> /\ P = <<>> /\ Q = <<>>
    /\ bestdL = 0 /\ icount = 0 /\ nswaps = 0

FitIdle ==
    /\ angle0 = 0 /\ angle_constraint = 0 /\ theta = 0 /\ istep = 0
    /\ errcount = 0 /\ nudge = 0 /\ theta_valid = 0 /\ nfitted = 0 /\ nfailed = 0

HostIdle ==
    /\ wids = <<>> /\ componentdicts = <<>> /\ args = <<>>
    /\ components_choices = <<>> /\ parses = 0 /\ xsec = <<>>

\* points of the smoother's inputs: the corners of a 3 x 4 rectangle, whose
\* pairwise distances are 0, 3, 4 and 5
SmoothPts == {<<0, 0>>, <<3, 0>>, <<0, 4>>, <<3, 4>>}

InitSmooth ==
    /\ entry = "smooth"
    /\ pc = "smooth"
    /\ \E n \in 2..MaxSmoothN : d_xy \in [1..n -> SmoothPts]
    /\ ExactSet(d_xy)
    /\ cmds = NoCmds
    /\ ordered_wids = Identity(Len(d_xy))
    /\ result = NoResult
    /\ calls = 1
    /\ SmoothIdle
    /\ FitIdle
    /\ HostIdle

NextSmooth == SmoothEnter \/ Sweep \/ SmoothAgain

SpecSmooth == InitSmooth /\ [][NextSmooth]_vars

\* points of the solver's inputs: three corners of the 3 x 4 rectangle
FitPts == {<<0, 0>>, <<3, 0>>, <<0, 4>>}

\* angle hints: none, east, 30 degrees, 75 degrees, north
FitHints == {None, Some(0), Some(PI \div 6), Some((5 * PI) \div 12), Some(PI \div 2)}

\* angle constraints: none, 0, below one nudge, 4 degrees
FitConstraints == {None, Some(0), Some(5000), Some(PI \div 45)}

InitFit ==
    /\ entry = "fit"
    /\ pc = "fit"
    /\ \E n \in 2..MaxFitN : d_xy \in [1..n -> FitPts]
    /\ \E h \in FitHints, c \in FitConstraints :
          cmds = [userline |-> None, userangle |-> h, userangle_constraint |-> c]
    /\ ordered_wids = <<>>
    /\ result = NoResult
    /\ calls = 1
    /\ SmoothIdle
    /\ FitIdle
    /\ HostIdle

NextFit == FitEnter \/ FitRound \/ FitFinish

SpecFit == InitFit /\ [][NextFit]_vars

\* places of the point sets that come with a guideline: six on the x axis
\* and one above it, at integer distances from one another
LineRing == << <<0, 0>>, <<0, 12>>, <<-9, 0>>, <<5, 0>>, <<16, 0>>, <<-5, 0>>, <<9, 0>> >>

\* n places of the ring, from any start and by any stride
Arrangement(start, stride, n) ==
    [i \in 1..n |-> LineRing[((start + stride * i) % Len(LineRing)) + 1]]

\* the places of the point sets that come without a guideline
LineFitPts == {<<0, 0>>, <<5, 0>>, <<0, 12>>}

\* guidelines: one node, eastward, westward, eastward through a middle node,
\* with a corner, and doubling back
UserLines ==
    { << <<0, 0>> >>,
      << <<-5, 0>>, <<16, 0>> >>,
      << <<16, 0>>, <<0, 0>> >>,
      << <<-9, 0>>, <<0, 0>>, <<16, 0>> >>,
      << <<-5, 0>>, <<0, 0>>, <<0, 12>> >>,
      << <<0, 0>>, <<8, 0>>, <<5, 0>> >> }

\* every projection on the guideline is a whole number of 1/PosScale
ExactLine(pts, userline) ==
    \A i \in 1..(Len(userline) - 1), k \in 1..Len(pts) :
        LET L == Lines(userline)[i]
            u == pts[k][1] - L.xy0[1]
            v == pts[k][2] - L.xy0[2]
        IN  /\ IsSquare(Dist2(L.xy0, L.xy1))
            /\ L.length > 0
            /\ (PosScale * (u * (L.xy1[1] - L.xy0[1]) + v * (L.xy1[2] - L.xy0[2])))
                   % L.length = 0

LineHints == {None, Some(PI \div 6)}

LineConstraints == {None, Some(0)}

InitLine ==
    /\ entry \in {"fenceline", "projected"}
    /\ pc = entry
    /\ \/ /\ \E ul \in UserLines : cmds = [userline |-> Some(ul), userangle |-> None,
                                             userangle_constraint |-> None]
          /\ \E n \in 1..MaxLineN, start \in 0..(Len(LineRing) - 1),
                stride \in 1..(Len(LineRing) - 1) :
                d_xy = Arrangement(start, stride, n)
          /\ ExactSet(d_xy)
          /\ ExactLine(d_xy, Val(cmds.userline))
       \/ /\ \E ul \in {None, Some(<<>>)}, h \in LineHints, c \in LineConstraints :
                cmds = [userline |-> ul, userangle |-> h, userangle_constraint |-> c]
          /\ \E n \in 1..MaxFitN : d_xy \in [1..n -> LineFitPts]
    /\ ordered_wids = <<>>
    /\ result = NoResult
    /\ calls = 1
    /\ SmoothIdle
    /\ FitIdle
    /\ HostIdle

NextLine ==
    \/ fenceline
    \/ projected_section_line
    \/ FitEnter
    \/ FitRound
    \/ FitFinish
    \/ SmoothEnter
    \/ Sweep

SpecLine == InitLine /\ [][NextLine]_vars

\* a call of projected_section_line_given(d_xy, cmds) by a caller that has
\* the line or the angle
CallGiven ==
    /\ pc = "given"
    /\ result' = projected_section_line_given(d_xy, cmds)
    /\ pc' = "done"
    /\ UNCHANGED <<d_xy, cmds, entry, calls, ordered_wids>>
    /\ UNCHANGED hostVars
    /\ UNCHANGED smoothVars
    /\ UNCHANGED fitVars

\* points to project: their pairwise differences are grid directions
ProjPts == {<<0, 0>>, <<4, 3>>, <<8, 6>>, <<4, 0>>, <<8, 0>>, <<0, 6>>}

\* guidelines to project on: slanted both ways, east, north, of one node
\* (too short) and of three nodes
ProjLines ==
    { << <<0, 0>>, <<4, 3>> >>,
      << <<8, 6>>, <<0, 0>> >>,
      << <<0, 6>>, <<8, 0>> >>,
      << <<0, 0>>, <<8, 0>> >>,
      << <<4, 0>>, <<4, 6>> >>,
      << <<4, 3>> >>,
      << <<0, 0>>, <<4, 3>>, <<8, 0>> >> }

\* angles to project along: the angles of grid directions
ProjAngles ==
    {0, Arctan2(3, 4), Arctan2(1, 1), PI \div 2, Arctan2(-3, 4), Arctan2(3, -4)}

InitProj ==
    /\ entry = "given"
    /\ pc = "given"
    /\ \E n \in 1..MaxProjN : d_xy \in [1..n -> ProjPts]
    /\ \/ \E ul \in ProjLines : cmds = [NoCmds EXCEPT !.userline = Some(ul)]
       \/ \E a \in ProjAngles : cmds = [NoCmds EXCEPT !.userangle = Some(a)]
       \/ cmds = NoCmds
    /\ ordered_wids = <<>>
    /\ result = NoResult
    /\ calls = 1
    /\ SmoothIdle
    /\ FitIdle
    /\ HostIdle

NextProj == CallGiven

SpecProj == InitProj /\ [][NextProj]_vars

-----------------------------------------------------------------------------
(* geometry_base.py: principle_rad_angle, called directly *)

\* nothing of the section-line engine is in hand
EngineIdle ==
    /\ ordered_wids = <<>> /\ calls = 0
    /\ SmoothIdle
    /\ FitIdle

engineVars == <<calls, ordered_wids, wids_in, K, P, Q, bestdL, icount, nswaps,
                angle0, angle_constraint, theta, istep, errcount, nudge,
                theta_valid, nfitted, nfailed>>

\* while r < -np.pi: r += 2*np.pi
RECURSIVE RaiseTurns(_)
RaiseTurns(r) == IF r < -PI THEN RaiseTurns(r + 2 * PI) ELSE r

\* while r > np.pi: r -= 2*np.pi
RECURSIVE LowerTurns(_)
LowerTurns(r) == IF r > PI THEN LowerTurns(r - 2 * PI) ELSE r

\* principle_rad_angle(r): the first loop, then the second
principle_rad_angle(r) == LowerTurns(RaiseTurns(r))

\* a call of principle_rad_angle(r)
CallPrinciple ==
    /\ pc = "angle"
    /\ result' = Plain("angle", <<>>, Some(principle_rad_angle(args[1])))
    /\ pc' = "done"
    /\ UNCHANGED <<d_xy, cmds, entry, args>>
    /\ UNCHANGED <<wids, componentdicts, components_choices, parses, xsec>>
    /\ UNCHANGED engineVars

\* angles handed to principle_rad_angle: the multiples of 15 degrees up to
\* MaxTurns full turns beyond a half turn, either way
AngleInputs ==
    {k * (PI \div 12) : k \in (-12 * (2 * MaxTurns + 1))..(12 * (2 * MaxTurns + 1))}

InitAngle ==
    /\ entry = "principle_rad_angle"
    /\ pc = "angle"
    /\ d_xy = <<>>
    /\ cmds = NoCmds
    /\ result = NoResult
    /\ wids = <<>> /\ componentdicts = <<>> /\ components_choices = <<>>
    /\ parses = 0 /\ xsec = <<>>
    /\ \E r \in AngleInputs : args = <<r>>
    /\ EngineIdle

NextAngle == CallPrinciple

SpecAngle == InitAngle /\ [][NextAngle]_vars

-----------------------------------------------------------------------------
(* xsec_cl.py: xsec_parse_args and process_cmds *)

\* sorted(components_dict.keys()): the letters of the drawing components
ComponentLetters == <<"B", "C", "F", "G", "H", "M", "P", "S", "T", "U", "W">>

\* components2_choices: the same with E for elevation
components2_choices == <<"B", "C", "E", "F", "G", "H", "M", "P", "S", "T", "U", "W">>

\* a in l, for a list l
InList(a, l) == \E i \in 1..Len(l) : l[i] = a

\* l.remove(a): the list without the first a
RECURSIVE Remove(_, _)
Remove(l, a) ==
    IF l = <<>> THEN <<>>
    ELSE IF Head(l) = a THEN Tail(l)
    ELSE <<Head(l)>> \o Remove(Tail(l), a)

\* for a in drop: if a in l: l.remove(a)
RECURSIVE RemoveEach(_, _)
RemoveEach(l, drop) ==
    IF drop = <<>> THEN l
    ELSE RemoveEach(IF InList(Head(drop), l) THEN Remove(l, Head(drop)) ELSE l, Tail(drop))

\* the userline restructured into pairs: U.append((u[i], u[i+1])) for
\* i in range(0, len(u), 2); u[i+1] is an IndexError on a list of odd length
PairsOf(u) == [i \in 1..(Len(u) \div 2) |-> <<u[2 * i - 1], u[2 * i]>>]

\* np.radians(d), exact for the whole multiples of 3 degrees
Radians(d) == (d * PI) \div 180

\* a command line: the values given to each option, None for an option left out
CommandLine(ids, f, p, s, l, a, A, X, I, R, r) ==
    [identifiers |-> ids, isfenceline |-> f, isprojected |-> p, issingleton |-> s,
     userline |-> l, userangledegrees |-> a, userangle_constraintdegrees |-> A,
     exclude |-> X, includeonly |-> I, required |-> R, not_required |-> r]

\* parser.parse_args rejects a value of -X or -I that is not among the
\* choices, the list components_choices as it is at the call, and a value of
\* -R or -r that is not in components2_choices
InvalidChoice(cl) ==
    \/ \E i \in 1..Len(cl.exclude) : ~InList(cl.exclude[i], components_choices)
    \/ /\ ~IsNone(cl.includeonly)
       /\ \E i \in 1..Len(Val(cl.includeonly)) :
              ~InList(Val(cl.includeonly)[i], components_choices)
    \/ \E i \in 1..Len(cl.required) : ~InList(cl.required[i], components2_choices)
    \/ \E i \in 1..Len(cl.not_required) : ~InList(cl.not_required[i], components2_choices)

\* the type of section line process_cmds resolves; None where it sets no
\* cmds.sectionlinetype at all
SectionLineType(cl) ==
    IF Len(cl.identifiers) = 1 THEN Some("singleton")
    ELSE IF cl.isprojected THEN Some("projected")
    ELSE IF cl.isfenceline THEN Some("fenceline")
    ELSE None

\* cmds.userangle: principle_rad_angle(np.radians(90-cmds.userangle))
UserAngle(a) == IF IsNone(a) THEN None ELSE Some(principle_rad_angle(Radians(90 - Val(a))))

\* cmds.userangle_constraint: np.radians(min(np.abs(degrees), 90))
UserAngleConstraint(A) ==
    IF IsNone(A) THEN None
    ELSE Some(Radians(IF Abs(Val(A)) < 90 THEN Abs(Val(A)) ELSE 90))

\* process_cmds(cmds): the namespace it returns.  The three switches are
\* rewritten in the branch taken; cmds.includeonly is the list given with
\* -I, or the parser's default, which is the list components_choices itself.
process_cmds(cl) ==
    LET switches ==
            IF Len(cl.identifiers) = 1 THEN <<FALSE, FALSE, TRUE>>
            ELSE IF cl.isprojected THEN <<FALSE, TRUE, FALSE>>
            ELSE IF cl.isfenceline THEN <<TRUE, cl.isprojected, FALSE>>
            ELSE <<cl.isfenceline, cl.isprojected, cl.issingleton>>
        included ==
            IF IsNone(cl.includeonly) THEN components_choices ELSE Val(cl.includeonly)
    IN  [identifiers |-> cl.identifiers,
         isfenceline |-> switches[1],
         isprojected |-> switches[2],
         issingleton |-> switches[3],
         sectionlinetype |-> SectionLineType(cl),
         userline |-> IF IsNone(cl.userline) THEN None ELSE Some(PairsOf(Val(cl.userline))),
         exclude |-> None,
         includeonly |-> RemoveEach(included, cl.exclude),
         required |-> RemoveEach(cl.required, cl.not_required),
         not_required |-> cl.not_required,
         userangledegrees |-> cl.userangledegrees,
         userangle |-> UserAngle(cl.userangledegrees),
         userangle_constraintdegrees |-> cl.userangle_constraintdegrees,
         userangle_constraint |-> UserAngleConstraint(cl.userangle_constraintdegrees)]

\* the command lines given: with -i the identifiers 1..n;
\*   - lines that differ in the number of identifiers and the switches;
\*   - angle hints (-a) and constraints (-A) in degrees;
\*   - lists given with -X and with -I;
\*   - lists given with -R and with -r;
\*   - guidelines given with -l as a flat list: two nodes, and a list of odd length
CommandLines ==
    {CommandLine(Identity(n), f, p, s, None, None, Some(0), <<>>, None, <<>>, <<>>) :
        n \in 1..MaxIds, f \in BOOLEAN, p \in BOOLEAN, s \in BOOLEAN}
    \cup
    {CommandLine(Identity(2), FALSE, TRUE, FALSE, None, Some(a), Some(A), <<>>, None, <<>>, <<>>) :
        a \in {0, 36, 45, 90, 120, 180, 270, 450, -90, -270}, A \in {0, 30, 120, -15}}
    \cup
    {CommandLine(Identity(n), TRUE, FALSE, FALSE, None, None, Some(0), X, I, <<>>, <<>>) :
        n \in 1..2,
        X \in {<<>>, <<"B">>, <<"C">>, <<"B", "C">>},
        I \in {None, Some(<<"B", "C">>), Some(<<"C", "G">>)}}
    \cup
    {CommandLine(Identity(2), TRUE, FALSE, FALSE, None, None, Some(0), <<>>, None, R, r) :
        R \in {<<"E">>, <<"E", "F">>}, r \in {<<>>, <<"E">>, <<"T">>}}
    \cup
    {CommandLine(Identity(2), f, ~f, FALSE, Some(l), None, Some(0), <<>>, None, <<>>, <<>>) :
        f \in BOOLEAN, l \in {<<0, 0, 100, 0>>, <<0, 0, 100>>}}

\* xsec_parse_args(args): parse the command line, then process_cmds.  An
\* invalid choice ends in the parser's exit, a guideline of odd length in an
\* IndexError; the exclusions are taken out of cmds.includeonly in place,
\* which is the module's list when -I was not given.
xsec_parse_args ==
    /\ pc \in {"cl", "parsed"}
    /\ parses < MaxParses
    /\ \E cl \in CommandLines :
        /\ args' = cl
        /\ parses' = parses + 1
        /\ IF InvalidChoice(cl)
           THEN /\ pc' = "exit"
                /\ UNCHANGED <<cmds, components_choices>>
           ELSE IF ~IsNone(cl.userline) /\ Len(Val(cl.userline)) % 2 = 1
           THEN /\ pc' = "raised"
                /\ UNCHANGED <<cmds, components_choices>>
           ELSE /\ pc' = "parsed"
                /\ cmds' = process_cmds(cl)
                /\ components_choices' =
                       IF IsNone(cl.includeonly)
                       THEN RemoveEach(components_choices, cl.exclude)
                       ELSE components_choices
    /\ UNCHANGED <<d_xy, entry, result, wids, componentdicts, xsec>>
    /\ UNCHANGED engineVars

InitCl ==
    /\ entry = "xsec_parse_args"
    /\ pc = "cl"
    /\ d_xy = <<>>
    /\ cmds = NoCmds
    /\ result = NoResult
    /\ wids = <<>> /\ componentdicts = <<>> /\ xsec = <<>>
    /\ args = <<>>
    /\ components_choices = ComponentLetters
    /\ parses = 0
    /\ EngineIdle

NextCl == xsec_parse_args

SpecCl == InitCl /\ [][NextCl]_vars

-----------------------------------------------------------------------------
(* xsec_data_abc.py: ensure_points_have_spread *)

\* the identifiers in a list
Range(l) == {l[i] : i \in 1..Len(l)}

\* the orderings of the identifiers 1..n
Orderings(n) == {o \in [1..n -> 1..n] : IsPermOf(o, n)}

\* place of w in the list as it stands, from 0
PlaceInList(w, ws) == (CHOOSE i \in 1..Len(ws) : ws[i] = w) - 1

\* place of w in sorted(self.wids), from 0
PlaceInSorted(w, ws) == Cardinality({v \in Range(ws) : v < w})

\* set(self.d_xy.values())
XYSet(pts) == {pts[w] : w \in DOMAIN pts}

\* the coordinate given to the well at place k: x - Lx/2 + k*xspace with
\* Lx = (N+1) * xspace and N = len(self.d_xy), and y
SpreadCoord(xy, N, k, xspace) ==
    Coord(2 * xy[1] - (N + 1) * xspace * xy[3] + 2 * k * xspace * xy[3],
          2 * xy[2], 2 * xy[3])

\* d_xy after the loop `for wid in sorted(self.wids): self.d_xy[wid] = Coord(x, y)`
Spread(pts, ws, xspace) ==
    LET xy == CHOOSE c \in XYSet(pts) : TRUE
        N  == Cardinality(DOMAIN pts)
    IN  [w \in (DOMAIN pts) \cup Range(ws) |->
            IF w \in Range(ws) THEN SpreadCoord(xy, N, PlaceInSorted(w, ws), xspace)
            ELSE pts[w]]

\* coordinates of the wells as read: two places 5 apart on one northing
SpreadPts == {<<225, 300, 1>>, <<230, 300, 1>>}

\* spacings asked for: the default and the one of the unit test
XSpaces == {10, 5}

\* ensure_points_have_spread(xspace): nothing for a singleton or when two
\* coordinates differ; xyset.pop() is a KeyError when no well has a coordinate
ensure_points_have_spread ==
    /\ pc = "spread"
    /\ \E xspace \in XSpaces :
        /\ args' = <<xspace>>
        /\ IF Len(wids) <= 1 \/ Cardinality(XYSet(d_xy)) > 1
           THEN /\ pc' = "done"
                /\ UNCHANGED d_xy
           ELSE IF XYSet(d_xy) = {}
           THEN /\ pc' = "raised"
                /\ UNCHANGED d_xy
           ELSE /\ pc' = "done"
                /\ d_xy' = Spread(d_xy, wids, xspace)
    /\ UNCHANGED <<cmds, entry, result, wids, componentdicts, components_choices, parses, xsec>>
    /\ UNCHANGED engineVars

\* the data as read_database leaves it: the wells in any order, and a
\* coordinate for those wells that have one
InitSpread ==
    /\ entry = "ensure_points_have_spread"
    /\ pc = "spread"
    /\ \E n \in 1..MaxWells :
        /\ wids \in Orderings(n)
        /\ \E D \in SUBSET (1..n) : d_xy \in [D -> SpreadPts]
    /\ cmds = NoCmds
    /\ result = NoResult
    /\ componentdicts = <<>> /\ xsec = <<>> /\ args = <<>>
    /\ components_choices = <<>> /\ parses = 0
    /\ EngineIdle

NextSpread == ensure_points_have_spread

SpecSpread == InitSpread /\ [][NextSpread]_vars

-----------------------------------------------------------------------------
(* xsec_data_abc.py: remove_wid_if_missing_required_components *)

\* the component dictionaries the method looks into
DictNames ==
    {"dz_bdrk", "dlz_casing2", "dz_grade", "dz_hydrofrac", "dlz_grout", "dz_casing",
     "dz_bot", "dz_droppipe", "dlz_perf", "dlz_screen", "dz_swl", "dlz_strat"}

\* the wells a required component keeps: the keys of its dictionary, for the
\* hole the keys of dz_casing or dz_grade that are keys of dz_bot as well, and
\* every well for the labels
KeptBy(c, dicts, all) ==
    CASE c = "B" -> dicts["dz_bdrk"]
      [] c = "C" -> dicts["dlz_casing2"]
      [] c = "E" -> dicts["dz_grade"]
      [] c = "F" -> dicts["dz_hydrofrac"]
      [] c = "G" -> dicts["dlz_grout"]
      [] c = "H" -> (dicts["dz_casing"] \cup dicts["dz_grade"]) \cap dicts["dz_bot"]
      [] c = "M" -> dicts["dz_droppipe"]
      [] c = "P" -> dicts["dlz_perf"]
      [] c = "S" -> dicts["dlz_screen"]
      [] c = "W" -> dicts["dz_swl"]
      [] c = "T" -> dicts["dlz_strat"]
      [] c = "U" -> all

\* for c in cl_choices: if c in required: wids = wids.intersection(...),
\* from the i-th choice on
RECURSIVE Thinned(_, _, _, _)
Thinned(ws, i, required, dicts) ==
    IF i > Len(components2_choices) THEN ws
    ELSE Thinned(IF InList(components2_choices[i], required)
                 THEN ws \cap KeptBy(components2_choices[i], dicts, ws)
                 ELSE ws,
                 i + 1, required, dicts)

\* tuple(wids) of a set: its elements in any order
TuplesOf(S) ==
    {o \in [1..Cardinality(S) -> S] : \A i, j \in 1..Cardinality(S) : o[i] = o[j] => i = j}

\* remove_wid_if_missing_required_components(required): when the count
\* differs, self.wids becomes tuple(wids) and d_xy is rebuilt from it, which
\* is a KeyError when a well that is kept has no coordinate.  The lists given
\* as cmds.required are the empty one, each single letter and some longer ones.
remove_wid_if_missing_required_components ==
    /\ pc = "remove"
    /\ \E required \in {<<>>, <<"E", "F">>, <<"H", "E">>, <<"C", "S", "T">>}
                        \cup {<<components2_choices[i]>> : i \in 1..Len(components2_choices)} :
        /\ args' = <<required>>
        /\ \E left \in {Thinned(Range(wids), 1, required, componentdicts)} :
            IF Cardinality(left) # Len(wids)
            THEN /\ wids' \in TuplesOf(left)
                 /\ IF left \subseteq DOMAIN d_xy
                    THEN /\ d_xy' = [w \in left |-> d_xy[w]]
                         /\ pc' = "done"
                    ELSE /\ UNCHANGED d_xy
                         /\ pc' = "raised"
            ELSE /\ pc' = "done"
                 /\ UNCHANGED <<wids, d_xy>>
    /\ UNCHANGED <<cmds, entry, result, componentdicts, components_choices, parses, xsec>>
    /\ UNCHANGED engineVars

\* keys a component dictionary may hold: every well, every well but one, none
KeySets(n) == {1..n, {}} \cup {(1..n) \ {w} : w \in 1..n}

\* the data as read_database leaves it: the wells in rising or falling order
\* of identifier, a coordinate for every well, for every well but one or for
\* none, and at most two component dictionaries that lack wells
InitRemove ==
    /\ entry = "remove_wid_if_missing_required_components"
    /\ pc = "remove"
    /\ \E n \in 1..MaxWells :
        /\ wids \in {Identity(n), [i \in 1..n |-> n + 1 - i]}
        /\ \E D \in KeySets(n) : d_xy = [w \in D |-> <<220 + 5 * w, 300, 1>>]
        /\ \E d1, d2 \in DictNames : \E s1, s2 \in KeySets(n) :
              componentdicts =
                  [d \in DictNames |-> IF d = d1 THEN s1 ELSE IF d = d2 THEN s2 ELSE 1..n]
    /\ cmds = NoCmds
    /\ result = NoResult
    /\ xsec = <<>> /\ args = <<>>
    /\ components_choices = <<>> /\ parses = 0
    /\ EngineIdle

NextRemove == remove_wid_if_missing_required_components

SpecRemove == InitRemove /\ [][NextRemove]_vars

-----------------------------------------------------------------------------
(* xsec_main.py: Xsec_main.adjust_Uscaling *)

\* a float as an exact fraction <<n, d>> in lowest terms, d > 0
Rat(n, d) ==
    CHOOSE r \in {<<(IF d < 0 THEN -n ELSE n) \div g, Abs(d) \div g>> :
                     g \in {Gcd(Abs(n), Abs(d))}} : TRUE

RAdd(p, q) == Rat(p[1] * q[2] + q[1] * p[2], p[2] * q[2])

RSub(p, q) == Rat(p[1] * q[2] - q[1] * p[2], p[2] * q[2])

RMul(p, q) == Rat(p[1] * q[1], p[2] * q[2])

RDiv(p, q) == Rat(p[1] * q[2], p[2] * q[1])

RLeq(p, q) == p[1] * q[2] <= q[1] * p[2]

RMax(p, q) == IF RLeq(p, q) THEN q ELSE p

\* min(s) and max(s) of a list of fractions
RMinOf(l) == CHOOSE m \in Range(l) : \A v \in Range(l) : RLeq(m, v)

RMaxOf(l) == CHOOSE m \in Range(l) : \A v \in Range(l) : RLeq(v, m)

\* np.hstack(([0], np.cumsum(l))): the running sums of l after a 0
RECURSIVE CumSum(_, _)
CumSum(l, k) == IF k = 0 THEN <<0, 1>> ELSE RAdd(CumSum(l, k - 1), l[k])

\* a float that is not a number: 0/0
NaN == <<0, 0>>

\* self.r_Rofd = LU/( (a + b*N + 2)*2*dmax )
R_Rofd(LU, a, b, N, dmax) == RDiv(LU, RMul(Rat(a + b * N + 2, 1), RMul(<<2, 1>>, dmax)))

\* the inner margins (U0m, U1m): Ulims drawn in by maxR = 2 * r_Rofd * dmax
Umlims(Ulims, r, dmax) ==
    << RAdd(Ulims[1], RMul(<<2, 1>>, RMul(r, dmax))),
       RSub(Ulims[2], RMul(<<2, 1>>, RMul(r, dmax))) >>

\* the nodes spread from s to U between the margins:
\* U0m + (s-s0) * (U1m - U0m)/(s1-s0)
Mapped_s2U(snodes, U0m, U1m) ==
    [i \in 1..Len(snodes) |->
        RAdd(U0m, RMul(RSub(snodes[i], RMinOf(snodes)),
                       RDiv(RSub(U1m, U0m), RSub(RMaxOf(snodes), RMinOf(snodes)))))] \o <<>>

\* np.max of the segments np.diff(Unodes) and of h * r_Rofd * the mean of
\* the largest diameters at the two ends
AdjustedSegments(U, dnodes, h, r) ==
    [i \in 1..(Len(U) - 1) |->
        RMax(RSub(U[i + 1], U[i]),
             RMul(RMul(h, r), RDiv(RAdd(dnodes[i + 1], dnodes[i]), <<2, 1>>)))] \o <<>>

\* the start the nodes are laid out from, as the code has it:
\* self.Unodes = U1m + U0nodes * ((U1m - U0m) / np.ptp(U0nodes))
LayoutStart(U0m, U1m) == U1m

\* the nodes pressed back to the span between the margins
Compressed(U0nodes, U0m, U1m) ==
    [i \in 1..Len(U0nodes) |->
        RAdd(LayoutStart(U0m, U1m),
             RMul(U0nodes[i], RDiv(RSub(U1m, U0m),
                                   RSub(RMaxOf(U0nodes), RMinOf(U0nodes)))))] \o <<>>

\* self.Unodes for two or more wells; where the wells all have one s the
\* scale is a division by zero and every node is not a number
UnodesOf(snodes, dnodes, h, r, U0m, U1m) ==
    IF RMaxOf(snodes) = RMinOf(snodes) THEN [i \in 1..Len(snodes) |-> NaN]
    ELSE CHOOSE u \in
            {Compressed([k \in 1..(Len(adj) + 1) |-> CumSum(adj, k - 1)] \o <<>>, U0m, U1m) :
                adj \in {AdjustedSegments(Mapped_s2U(snodes, U0m, U1m), dnodes, h, r)}} : TRUE

\* the scaling parameters a, b, h: the defaults of adjust_Uscaling and of
\* xsec_draw, and those of the first drawing
ScalingArgs == {<<2, 3, <<7, 2>>>>, <<2, 3, <<5, 2>>>>, <<3, 4, <<7, 2>>>>}

\* adjust_Uscaling(a, b, h)
adjust_Uscaling ==
    /\ pc = "scaling"
    /\ \E abh \in ScalingArgs :
        /\ args' = abh
        /\ \E r \in {R_Rofd(RSub(xsec.Ulims[2], xsec.Ulims[1]), abh[1], abh[2], Len(wids), xsec.dmax)} :
           \E m \in {Umlims(xsec.Ulims, r, xsec.dmax)} :
           \E U \in {IF Len(wids) = 1 THEN << <<0, 1>> >>
                     ELSE UnodesOf(xsec.snodes,
                                   [i \in 1..Len(ordered_wids) |-> xsec.d_maxdia[ordered_wids[i]]],
                                   abh[3], r, m[1], m[2])} :
              xsec' = [xsec EXCEPT !.r_Rofd = Some(r),
                                   !.Umargin = Some(RMul(<<2, 1>>, RMul(r, xsec.dmax))),
                                   !.Umlims = Some(m),
                                   !.Unodes = Some(U),
                                   !.d_Unodes = Some([w \in Range(ordered_wids) |->
                                                        U[PlaceInList(w, ordered_wids) + 1]])]
    /\ pc' = "done"
    /\ UNCHANGED <<d_xy, cmds, entry, result, wids, componentdicts, components_choices, parses>>
    /\ UNCHANGED engineVars

\* the drawing as xsec_draw has it before the scaling: Ulims = (0, 1.0), the
\* section line's snodes ([0] and the running sums of the segment lengths),
\* the wells in section-line order, their largest diameters and the largest
\* of these
InitScaling ==
    /\ entry = "adjust_Uscaling"
    /\ pc = "scaling"
    /\ d_xy = <<>>
    /\ cmds = NoCmds
    /\ result = NoResult
    /\ componentdicts = <<>> /\ args = <<>>
    /\ components_choices = <<>> /\ parses = 0
    /\ \E n \in 1..MaxDrawN :
        /\ wids = Identity(n)
        /\ ordered_wids \in Orderings(n)
        /\ \E segs \in [1..(n - 1) -> {0, 10, 40}], dias \in [1..n -> {2, 4, 6}] :
              xsec = [Ulims |-> << <<0, 1>>, <<1, 1>> >>,
                      snodes |-> [k \in 1..n |->
                                    CumSum([i \in 1..(n - 1) |-> <<segs[i], 1>>], k - 1)],
                      dmax |-> <<CHOOSE m \in Range(dias) :
                                    \A v \in Range(dias) : v <= m, 1>>,
                      d_maxdia |-> [w \in 1..n |-> <<dias[w], 1>>],
                      r_Rofd |-> None, Umargin |-> None, Umlims |-> None,
                      Unodes |-> None, d_Unodes |-> None]
    /\ calls = 0
    /\ SmoothIdle
    /\ FitIdle

NextScaling == adjust_Uscaling

SpecScaling == InitScaling /\ [][NextScaling]_vars

-----------------------------------------------------------------------------
(* Path smoother: properties *)

Returned == pc = "done" /\ result.kind = "ordering"

\* C2: the path through the points in the order fenceline_smooth returns is
\* no longer than the path in the order it was given.
C2_SmoothNeverLonger ==
    Returned => PathLen(d_xy, result.wids) <= PathLen(d_xy, wids_in)

\* C3: applying fenceline_smooth to the ordering it has just returned gives
\* no further reduction of the total path length.
C3_SmoothIdempotent ==
    (Returned /\ calls = 2) => PathLen(d_xy, result.wids) >= PathLen(d_xy, wids_in)

\* C4: for N >= 4, when fenceline_smooth returns below the sweep cap, every
\* candidate swap scored on the returned ordering has a delta >= 0.
C4_NoImprovingCandidateLeft ==
    (Returned /\ Len(d_xy) >= 4 /\ icount <= 100) =>
        \A i \in 0..(Len(d_xy) - 4) :
            SweepCandidate(i, Len(d_xy), PointsOf(d_xy, result.wids))[1] >= 0

\* C11: for three points fenceline_smooth returns the shorter of the two
\* orderings got by swapping the first pair or the last pair, if that one is
\* strictly shorter than the ordering given, and the ordering given otherwise.
C11_ThreeTakesBetterSwap ==
    (Returned /\ Len(d_xy) = 3) =>
        LET L0 == PathLen(d_xy, wids_in)
            s1 == Swap(wids_in, 1, 2)
            s2 == Swap(wids_in, 2, 3)
            L1 == PathLen(d_xy, s1)
            L2 == PathLen(d_xy, s2)
        IN  IF L1 < L0 \/ L2 < L0
            THEN /\ result.wids \in {s1, s2}
                 /\ PathLen(d_xy, result.wids) <= L1
                 /\ PathLen(d_xy, result.wids) <= L2
            ELSE result.wids = wids_in

\* three points for which both swaps shorten the path and the last pair's
\* swap, the shorter one, was returned
C11_Witness ==
    /\ Returned /\ Len(d_xy) = 3
    /\ PathLen(d_xy, Swap(wids_in, 1, 2)) < PathLen(d_xy, wids_in)
    /\ PathLen(d_xy, Swap(wids_in, 2, 3)) < PathLen(d_xy, Swap(wids_in, 1, 2))
    /\ result.wids = Swap(wids_in, 2, 3)

\* C10: fenceline_smooth terminates on every input, makes at most 100 sweeps,
\* and what it returns is an ordering of all keys.  Termination is stated by
\* its measure: every pass of the loop that does not return raises the sweep
\* count, and the sweep count never passes the cap.
C10_SmoothTerminates ==
    /\ [](icount <= 100)
    /\ [](Returned => IsPermOf(result.wids, Len(d_xy)))
    /\ [][(pc = "sweep" /\ pc' = "sweep") => icount' = icount + 1]_vars

\* a call on four or more points that swept, swapped and returned
C10_Witness == Returned /\ Len(d_xy) >= 4 /\ nswaps >= 1 /\ icount >= 2

-----------------------------------------------------------------------------
(* Best-fit line solver: properties *)

Fitted == pc = "done" /\ result.kind = "fit"

\* C5: the angle find_best_projected_ordering returns differs from the hint
\* angle by no more than the angle constraint, on every path, failed
\* regressions and nudges included.
C5_AngleWithinConstraint ==
    (Fitted /\ ~IsNone(cmds.userangle) /\ ~IsNone(cmds.userangle_constraint)) =>
        Abs(Val(result.angle) - Val(cmds.userangle)) <= Val(cmds.userangle_constraint)

\* C6: with an angle hint and a tolerance of 0 the returned angle is the hint
\* and the returned ordering is the order of the points along the hint angle.
C6_ZeroToleranceKeepsHint ==
    (Fitted /\ ~IsNone(cmds.userangle) /\ cmds.userangle_constraint = Some(0)) =>
        /\ result.angle = cmds.userangle
        /\ result.wids = ArgsortAlong(d_xy, Val(cmds.userangle))

TwoPoints == Len(d_xy) = 2 /\ d_xy[1] # d_xy[2]

\* C7 as stated: for two points the returned angle is the angle of the segment
\* between them (as a line, modulo pi), whatever the hint and the constraint.
C7_TwoPointsAnyHint ==
    (Fitted /\ TwoPoints) => FoldHalfTurn(Val(result.angle) - LineAngle(d_xy)) = 0

\* C7: for two points the returned angle is the direction of the line through
\* them nearest to the hint angle (to 0 without a hint) when that direction is
\* less than the angle constraint away from it; otherwise it is the hint plus
\* or minus the constraint.
C7_TwoPointsWithinConstraint ==
    (Fitted /\ TwoPoints) =>
        LET w == FoldHalfTurn(LineAngle(d_xy) - angle0)
        IN  IF Abs(w) < angle_constraint
            THEN Val(result.angle) = angle0 + w
            ELSE Abs(Val(result.angle) - angle0) = angle_constraint

\* two points off the hinted direction, returned along their segment after a
\* second round found nothing more to turn
C7_Witness ==
    /\ Fitted /\ TwoPoints
    /\ ~IsNone(cmds.userangle)
    /\ result.angle # cmds.userangle
    /\ FoldHalfTurn(Val(result.angle) - LineAngle(d_xy)) = 0
    /\ nfitted = 2

\* C8: when the regression fails until the retry cap ends the refinement, the
\* rotation behind the returned angle and ordering is the last valid rotation,
\* with no nudge left in it.
C8_AbortKeepsLastValidRotation ==
    (Fitted /\ nfailed > errcount) =>
        /\ Val(result.angle) = angle0 + theta_valid
        /\ result.wids = ArgsortAlong(d_xy, angle0 + theta_valid)

-----------------------------------------------------------------------------
(* Entry points: properties *)

Sectioned == pc = "done" /\ result.kind = "section"

\* C1: the ordering fenceline() and projected_section_line() return holds
\* every key of d_xy exactly once, whatever the hints, also when two points
\* come to the same position along the guideline or the fitted line.
C1_OrderingIsPermutation ==
    Sectioned => IsPermOf(result.wids, Len(d_xy))

-----------------------------------------------------------------------------
(* User-guideline mapper: properties *)

\* fenceline has returned from a call that went through the mapper
MapperActed ==
    /\ pc = "done" /\ entry = "fenceline"
    /\ Len(d_xy) >= 2 /\ HasLine(cmds)

\* the python indices of the interior nodes of a guideline
InteriorNodes(ul) == 1..(Len(ul) - 2)

NodeOf(k) == NearestNode(Val(cmds.userline), d_xy[k])

LeftOf(k) == MapLeft(Lines(Val(cmds.userline)), NodeOf(k), d_xy[k])

RightOf(k) == MapRight(Lines(Val(cmds.userline)), NodeOf(k), d_xy[k])

PositionOf(k) == KPosition(d_xy, Val(cmds.userline))[k]

Mean(a, b) == Some((Val(a) + Val(b)) \div 2)

-----------------------------------------------------------------------------
(* fenceline: properties *)

\* fenceline has returned a section line for two or more points
Fenced ==
    /\ pc = "done" /\ entry = "fenceline"
    /\ Len(d_xy) >= 2 /\ result.kind = "section"

\* C14: fenceline with two or more points and a guideline of fewer than two
\* nodes, the empty list included, ends in an error and returns nothing.
C14_ShortGuidelineFails ==
    (/\ pc = "done" /\ entry = "fenceline" /\ Len(d_xy) >= 2
     /\ ~IsNone(cmds.userline) /\ Len(Val(cmds.userline)) < 2) =>
        result.kind = "error"

\* the ordering the mapper gave fenceline, as a sequence
Mapped == Val(find_fenceline_with_userline(d_xy, Val(cmds.userline))) \o <<>>

\* C15 as stated: what fenceline returns is always fenceline_smooth of the
\* first ordering, from the mapper as from the solver.
C15_AlwaysSmoothed ==
    Fenced =>
        IF HasLine(cmds)
        THEN \A m \in {Mapped} :
                Len(m) = Len(d_xy) => result.wids = fenceline_smooth(d_xy, m)
        ELSE result.wids = fenceline_smooth(d_xy, ArgsortAlong(d_xy, angle0 + theta))

\* C15: what fenceline returns is fenceline_smooth of the solver's ordering,
\* and of the mapper's ordering only when that has more than 5 keys and more
\* than twice as many keys as the guideline has nodes; a mapper's ordering
\* that is not so is returned as it is.
C15_SmoothedWhenLarge ==
    Fenced =>
        IF HasLine(cmds)
        THEN \A m \in {Mapped} :
                IF Len(m) > 5 /\ Len(m) > 2 * Len(Val(cmds.userline))
                THEN result.wids = fenceline_smooth(d_xy, m)
                ELSE result.wids = m
        ELSE /\ wids_in = ArgsortAlong(d_xy, angle0 + theta)
             /\ result.wids = fenceline_smooth(d_xy, wids_in)

\* a mapper's ordering of all the keys, returned as it is although
\* fenceline_smooth would have changed it
C15_Witness ==
    /\ Fenced /\ HasLine(cmds)
    /\ \E m \in {Mapped} :
          /\ Len(m) = Len(d_xy)
          /\ result.wids = m
          /\ fenceline_smooth(d_xy, m) # m

\* C16: no step of projected_section_line or fenceline changes the caller's
\* hints (cmds.userline, cmds.userangle, cmds.userangle_constraint) or the
\* point set, so that they are on return what they were at the call.
C16_HintsAndPointsKept == [][cmds' = cmds /\ d_xy' = d_xy]_vars

-----------------------------------------------------------------------------
(* section lines: properties *)

\* an entry point has returned the section of a set of one point
SingletonDone == pc = "done" /\ Len(d_xy) = 1 /\ result.kind = "section"

\* the ordering and the line of a singleton: the one key, and one node at
\* the point, of length 0
SingletonLine ==
    /\ result.wids = <<1>>
    /\ Len(result.line.xy) = 1
    /\ result.line.xy[1] = XY(d_xy[1])
    /\ PlylineLength(result.line) = 0

\* C17 as stated: a set of one point gives the one key, a line of one node
\* at the point of length 0, and an empty list of leaders.
C17_SingletonEmptyLeaders ==
    SingletonDone => SingletonLine /\ result.normals = Some(<<>>)

\* C17: a set of one point gives the one key, a line of one node at the
\* point of length 0, and None where the list of leaders would be.
C17_SingletonNoLeaders ==
    SingletonDone => SingletonLine /\ result.normals = None

C17_Witness ==
    /\ SingletonDone /\ entry = "projected"
    /\ result.line.label = "singleton"
    /\ d_xy[1] # <<0, 0>>

\* projected_section_line_given has returned a section line
GivenDone == pc = "done" /\ entry = "given" /\ result.kind = "section"

\* alpha and xyc of the call: of the guideline's first two nodes, or the
\* angle hint and the centroid of the points
AnchorAlpha ==
    IF HasLine(cmds)
    THEN LineAngleOf(Val(cmds.userline)[1], Val(cmds.userline)[2])
    ELSE Val(cmds.userangle)

AnchorCenter ==
    IF HasLine(cmds)
    THEN LineCenter(Val(cmds.userline)[1], Val(cmds.userline)[2])
    ELSE MeanXY(d_xy)

\* the anchor of the call: xyc, and the cosine and sine of alpha and -alpha
Anchor == <<AnchorCenter, CosSin(AnchorAlpha), CosSin(-AnchorAlpha)>>

\* the projection of a coordinate pair on the section line of anchor a
Foot(p, a) == Project(p, a[1], a[2], a[3])

\* the leaders returned
Leaders == Val(result.normals)

\* the point of the i-th key returned
PointOf(i) == XY(d_xy[result.wids[i]])

\* C18: projected_section_line_given returns one leader for each point: the
\* ordering holds every key once, and the i-th leader starts at the point of
\* the i-th key of the ordering and ends at the projected position of that
\* point, which is the i-th node of the section line.
C18_OneLeaderPerPoint ==
    GivenDone =>
        /\ IsPermOf(result.wids, Len(d_xy))
        /\ Len(Leaders) = Len(d_xy)
        /\ Len(result.line.xy) = Len(d_xy)
        /\ \A a \in {Anchor} : \A i \in 1..Len(d_xy) :
              /\ Leaders[i][1] = PointOf(i)
              /\ Leaders[i][2] = Foot(PointOf(i), a).xyp
              /\ Leaders[i][2] = result.line.xy[i]

\* three points out of order along a slanted line, none of them on it, with
\* three different projected positions
C18_Witness ==
    /\ GivenDone /\ Len(d_xy) = 3
    /\ result.wids # Identity(3)
    /\ AnchorAlpha = Arctan2(3, 4)
    /\ \A i \in 1..3 : Leaders[i][1] # Leaders[i][2]
    /\ Cardinality({result.line.xy[i] : i \in 1..3}) = 3

\* C19: the keys are returned in the order of their coordinates along the
\* line, which never decrease through the list, and the first and the last
\* node of the section line are the projected positions of the first and
\* the last key.
C19_OrderedAlongLine ==
    GivenDone =>
        \A a \in {Anchor} :
            /\ \A i \in 1..(Len(d_xy) - 1) :
                  Foot(PointOf(i), a).U <= Foot(PointOf(i + 1), a).U
            /\ result.line.xy[1] = Foot(PointOf(1), a).xyp
            /\ result.line.xy[Len(d_xy)] = Foot(PointOf(Len(d_xy)), a).xyp

\* three points whose order along a westward slanted line is the reverse of
\* their order in d_xy
C19_Witness ==
    /\ GivenDone /\ Len(d_xy) = 3
    /\ result.wids = <<3, 2, 1>>
    /\ AnchorAlpha = Arctan2(-3, -4)
    /\ \E a \in {Anchor} :
          /\ Foot(PointOf(1), a).U < Foot(PointOf(2), a).U
          /\ Foot(PointOf(2), a).U < Foot(PointOf(3), a).U

\* the point lies on the section line of the call
OnSectionLine(p) ==
    IF HasLine(cmds)
    THEN Cross(Val(cmds.userline)[1], Val(cmds.userline)[2], p) = 0
    ELSE LET v == (CHOOSE e \in GridAngles : e[1] = FoldTurn(AnchorAlpha))[2]
             c == MeanXY(d_xy)
         IN  v[1] * (c[3] * p[2] - c[2]) - v[2] * (c[3] * p[1] - c[1]) = 0

-----------------------------------------------------------------------------
(* Claims on principle_rad_angle (SpecAngle) *)

\* principle_rad_angle has returned
AngleDone == pc = "done" /\ entry = "principle_rad_angle"

\* C25: principle_rad_angle(r) returns an angle in the half-open range
\* (-pi, +pi] that differs from r by a whole number of full turns, for every
\* r, -pi and the odd negative multiples of pi included; so that an angle a
\* of that range comes back from a + 2*pi*m as a.
C25_PrincipalAngle ==
    AngleDone =>
        /\ Val(result.angle) > -PI
        /\ Val(result.angle) <= PI
        /\ (Val(result.angle) - args[1]) % (2 * PI) = 0


-----------------------------------------------------------------------------
(* Claims on the command line (SpecCl) *)

\* xsec_parse_args has returned the namespace of the command line in args
Parsed == pc = "parsed" /\ entry = "xsec_parse_args"

\* C23: after process_cmds, cmds.sectionlinetype is defined and is one of
\* 'singleton', 'fenceline', 'projected'; it is 'fenceline' for more than one
\* identifier with neither -f nor -p, and 'singleton' for exactly one
\* identifier whatever the switches.
C23_SectionLineTypeDefined ==
    Parsed =>
        /\ ~IsNone(cmds.sectionlinetype)
        /\ Val(cmds.sectionlinetype) \in {"singleton", "fenceline", "projected"}
        /\ (Len(args.identifiers) > 1 /\ ~args.isfenceline /\ ~args.isprojected) =>
               Val(cmds.sectionlinetype) = "fenceline"
        /\ Len(args.identifiers) = 1 => Val(cmds.sectionlinetype) = "singleton"

\* C24: after process_cmds, cmds.userangle is the --anglehint value, taken as
\* degrees counterclockwise from East, in radians and within half a turn of
\* zero, for every hint.
C24_AngleHintFromEast ==
    (Parsed /\ ~IsNone(args.userangledegrees)) =>
        /\ ~IsNone(cmds.userangle)
        /\ Val(cmds.userangle) >= -PI
        /\ Val(cmds.userangle) <= PI
        /\ (Val(cmds.userangle) - Radians(Val(args.userangledegrees))) % (2 * PI) = 0

\* C28: a call given neither -I nor -X yields cmds.includeonly with every
\* component letter, whatever was excluded in earlier calls of the process.
C28_DefaultIncludesEverything ==
    (Parsed /\ IsNone(args.includeonly) /\ args.exclude = <<>>) =>
        cmds.includeonly = ComponentLetters


-----------------------------------------------------------------------------
(* Claims on ensure_points_have_spread (SpecSpread) *)

\* the one coordinate the wells share
SharedXY == CHOOSE c \in XYSet(d_xy) : TRUE

\* v and w follow each other in sorted-identifier order
NextInSorted(v, w) ==
    /\ v \in Range(wids) /\ w \in Range(wids) /\ v < w
    /\ ~\E u \in Range(wids) : v < u /\ u < w

\* twice the x of a coordinate whose denominator is 1 or 2
TwiceX(c) == (2 * c[1]) \div c[3]

\* sum of twice the x over the wells of S
RECURSIVE SumTwiceX(_, _)
SumTwiceX(pts, S) ==
    IF S = {} THEN 0
    ELSE LET w == CHOOSE v \in S : TRUE
         IN  TwiceX(pts[w]) + SumTwiceX(pts, S \ {w})

\* C21: called when two or more wells all share one coordinate,
\* ensure_points_have_spread gives every well a coordinate, keeps the y, and
\* puts each well exactly xspace east of the one before it in
\* sorted-identifier order; called for a singleton, or when two wells differ
\* in coordinates, it leaves d_xy as it is.
C21_SpreadWestToEast ==
    [][pc = "spread" =>
        /\ (Len(wids) >= 2 /\ Cardinality(XYSet(d_xy)) = 1) =>
              /\ pc' = "done"
              /\ DOMAIN d_xy' = Range(wids) \cup DOMAIN d_xy
              /\ \A w \in Range(wids) :
                    d_xy'[w][2] * SharedXY[3] = SharedXY[2] * d_xy'[w][3]
              /\ \A v, w \in Range(wids) :
                    NextInSorted(v, w) =>
                        TwiceX(d_xy'[w]) - TwiceX(d_xy'[v]) = 2 * args'[1]
        /\ (Len(wids) <= 1 \/ Cardinality(XYSet(d_xy)) >= 2) =>
              /\ pc' = "done"
              /\ d_xy' = d_xy]_vars

\* three wells listed out of order have been spread: three coordinates, each
\* xspace east of the one before
C21_Witness ==
    /\ pc = "done" /\ entry = "ensure_points_have_spread"
    /\ Len(wids) = 3 /\ wids[1] = 3 /\ wids[2] = 1
    /\ Cardinality(XYSet(d_xy)) = 3
    /\ TwiceX(d_xy[2]) - TwiceX(d_xy[1]) = 2 * args[1]
    /\ TwiceX(d_xy[3]) - TwiceX(d_xy[2]) = 2 * args[1]
    /\ d_xy[1][2] = 300 * d_xy[1][3]

\* C22: when ensure_points_have_spread spreads two or more coincident wells,
\* the mean of the new x coordinates is the x they shared.
C22_SpreadCentered ==
    [][(pc = "spread" /\ d_xy' # d_xy) =>
        SumTwiceX(d_xy', Range(wids)) = Cardinality(Range(wids)) * TwiceX(SharedXY)]_vars


-----------------------------------------------------------------------------
(* Claims on remove_wid_if_missing_required_components (SpecRemove) *)

\* well w has data for every component of the list
HasAllRequired(w, required) ==
    \A i \in 1..Len(required) : w \in KeptBy(required[i], componentdicts, Range(wids))

\* C26: after remove_wid_if_missing_required_components(required), self.wids
\* holds exactly the original wells that have data for every required
\* component, and whenever a well was removed the keys of d_xy are the wells
\* that remain.
C26_RemainingWells ==
    [][pc = "remove" =>
        /\ Range(wids') = {w \in Range(wids) : HasAllRequired(w, args'[1])}
        /\ Range(wids') # Range(wids) => DOMAIN d_xy' = Range(wids')]_vars


-----------------------------------------------------------------------------
(* Claims on adjust_Uscaling (SpecScaling) *)

\* adjust_Uscaling has returned for two or more wells
Scaled == pc = "done" /\ entry = "adjust_Uscaling" /\ Len(wids) >= 2

\* C29: after adjust_Uscaling for two or more wells, every entry of Unodes
\* is a number within the inner margins [U0m, U1m], the first well is at U0m
\* and the last at U1m, and Unodes does not decrease along the section line.
C29_NodesWithinMargins ==
    Scaled =>
        \A U \in {Val(xsec.Unodes)} : \A m \in {Val(xsec.Umlims)} :
            /\ \A i \in 1..Len(U) :
                  U[i] # NaN /\ RLeq(m[1], U[i]) /\ RLeq(U[i], m[2])
            /\ U[1] = m[1]
            /\ U[Len(U)] = m[2]
            /\ \A i \in 1..(Len(U) - 1) : RLeq(U[i], U[i + 1])


-----------------------------------------------------------------------------
(* Claims on the sweeps of fenceline_smooth (SpecSmooth) *)

\* a call of fenceline_smooth on four or more points is sweeping or has returned
InSweeps == entry = "smooth" /\ Len(d_xy) >= 4 /\ pc \in {"sweep", "done"}

\* change of the path length when the neighbours at places j and j+1 of the
\* ordering k change places
TrueDelta(k, j) == PathLen(d_xy, Swap(k, j, j + 1)) - PathLen(d_xy, k)

\* C27: in every sweep of fenceline_smooth for N >= 4 the deltas are those of
\* the current ordering, every adjacent pair is a candidate, and the swap
\* applied is the candidate with the most negative delta: a sweep that swaps
\* shortens the current path by as much as any swap of two neighbours can.
C27_SweepTakesBestOfCurrent ==
    [][(pc = "sweep" /\ Len(d_xy) >= 4 /\ K' # K) =>
        /\ PathLen(d_xy, K') < PathLen(d_xy, K)
        /\ \A j \in 1..(Len(K) - 1) :
              PathLen(d_xy, K') - PathLen(d_xy, K) <= TrueDelta(K, j)]_vars

=============================================================================
